---- MODULE Spec2Model ----
(***************************************************************************)
(* Model of the resolveai-action job submission pipeline:                  *)
(*   crypto.ts  createStableJsonString / signPayload / createIdempotencyKey *)
(*   index.ts   buildJobPayload                                             *)
(*   client.ts  ECSClient.submitJob / makeRequestWithRetry                  *)
(* One submitJob call is modelled as a state machine whose steps are the   *)
(* synchronous runs between two awaits of the async code; the network, the *)
(* remote service, the timers and the clock are the environment.           *)
(* Three specifications:                                                   *)
(*   Spec      one submitJob call and the remote service                   *)
(*   FnSpec    the library functions, run() and the headers of submitJob,  *)
(*             each applied once to arguments drawn from bounded sets      *)
(*   PairSpec  two submitJob calls in flight together                      *)
(***************************************************************************)
EXTENDS Integers, Sequences, FiniteSets, TLC

(***************************************************************************)
(* Bounds of the model.                                                    *)
(***************************************************************************)
\* largest maxRetries explored (schema.ts allows 0..10)
MaxRetriesBound == 2

(***************************************************************************)
(* JavaScript values.  A scalar carries its type (str, num, bool, null,    *)
(* undef) and its text; objects and arrays live in a heap and are referred *)
(* to by their address, so that identity (the WeakSet of                   *)
(* createStableJsonString, the sharing left by a shallow copy) is part of  *)
(* the model.  An object is the sequence of its properties in insertion    *)
(* order.                                                                  *)
(***************************************************************************)
Scalar(ty, txt) == [t |-> ty, s |-> txt, r |-> 0]
Ref(i) == [t |-> "ref", s |-> "", r |-> i]
Undefined == Scalar("undef", "undefined")
Null == Scalar("null", "null")
Str(txt) == Scalar("str", txt)
Num(n) == Scalar("num", ToString(n))
True == Scalar("bool", "true")
Ent(k, v) == [key |-> k, val |-> v]
Obj(ents) == [k |-> "obj", ents |-> ents]
Arr(vals) == [k |-> "arr", ents |-> [i \in 1..Len(vals) |-> Ent("", vals[i])]]

\* obj[key]: the value of the property, undefined when there is none
Get(heap, ref, key) ==
  LET ents == heap[ref.r].ents
      hits == {i \in 1..Len(ents) : ents[i].key = key}
  IN  IF hits = {} THEN Undefined ELSE ents[CHOOSE i \in hits : TRUE].val

\* JavaScript truthiness of a value
Truthy(v) ==
  CASE v.t = "undef" -> FALSE
    [] v.t = "null" -> FALSE
    [] v.t = "str" -> v.s # ""
    [] v.t = "num" -> v.s # "0"
    [] v.t = "bool" -> v.s = "true"
    [] OTHER -> TRUE

\* a detached tree: what normalize builds and JSON.stringify reads
Leaf(ty, txt) == [t |-> ty, s |-> txt, ents |-> <<>>]
Node(kind, ents) == [t |-> kind, s |-> "", ents |-> ents]

\* every property name of the wire payload, in the order of Array.prototype.sort
\* (UTF-16 code units)
KeyOrder ==
  << "action", "actor", "allow_write_paths", "attempt", "deny_write_paths",
     "event_name", "forwarded", "github", "id", "idempotency_key", "issue_number", "job",
     "llm", "llm_api_key", "model", "openai_api_key", "post_comment",
     "provider", "ref", "repository", "secrets", "sha", "tenant", "timestamp",
     "token", "url", "vectordb", "vectordb_token", "workflow_run" >>

KeyRank(k) == CHOOSE i \in 1..Len(KeyOrder) : KeyOrder[i] = k
KeyLess(e1, e2) == KeyRank(e1.key) < KeyRank(e2.key)

\* the properties left in insertion order
InsertionOrderEnts(ents) == ents
\* Object.keys(val).sort() paired with val[k]
SortedEnts(ents) == SortSeq(ents, KeyLess)

\* a guard that returns nothing
CyclePlaceholderUndefined == Leaf("undef", "undefined")
\* if (seen.has(val)) return null
CyclePlaceholder == Leaf("null", "null")

\* the elements of an array put in one fixed order, whatever order they had
ElemRanks ==
  << Str("a"), Str("b"), Str("src/"), Str("docs/"), Num(1), Null, Ref(2), Ref(3) >>
ElemRank(v) ==
  IF \E i \in 1..Len(ElemRanks) : ElemRanks[i] = v
  THEN CHOOSE i \in 1..Len(ElemRanks) : ElemRanks[i] = v
  ELSE 0
ElemLess(e1, e2) == ElemRank(e1.val) < ElemRank(e2.val)
ArrayEntsSorted(ents) == SortSeq(ents, ElemLess)
\* val.map(...): the elements of an array, in index order
ArrayEnts(ents) == ents

(***************************************************************************)
(* crypto.ts: createStableJsonString.  normalize threads the WeakSet       *)
(* `seen` through the traversal in evaluation order.                       *)
(***************************************************************************)
RECURSIVE normalize(_, _, _)
RECURSIVE normalizeEach(_, _, _, _, _)

\* val.map(v => normalize(v))  /  keys.map(k => [k, normalize(val[k])])
normalizeEach(heap, ents, i, seen, acc) ==
  IF i > Len(ents) THEN [ents |-> acc, seen |-> seen]
  ELSE LET n == normalize(heap, ents[i].val, seen)
       IN  normalizeEach(heap, ents, i + 1, n.seen,
                         Append(acc, Ent(ents[i].key, n.tree)))

normalize(heap, val, seen) ==
  IF val.t # "ref" THEN [tree |-> Leaf(val.t, val.s), seen |-> seen]
  ELSE IF val.r \in seen THEN [tree |-> CyclePlaceholder, seen |-> seen]
  ELSE LET node == heap[val.r]
           ents == IF node.k = "arr" THEN ArrayEnts(node.ents)
                                     ELSE SortedEnts(node.ents)
           sub  == normalizeEach(heap, ents, 1, seen \cup {val.r}, <<>>)
       IN  [tree |-> Node(node.k, sub.ents), seen |-> sub.seen]

RECURSIVE stringify(_)
RECURSIVE stringifyEnts(_, _, _, _)

\* JSON.stringify of the members of an object or array: a property whose
\* value is undefined is left out of an object and written null in an array
stringifyEnts(kind, ents, i, first) ==
  IF i > Len(ents) THEN ""
  ELSE LET e == ents[i]
           skip == kind = "obj" /\ e.val.t = "undef"
           txt == IF e.val.t = "undef" THEN "null" ELSE stringify(e.val)
           item == IF kind = "obj" THEN "\"" \o e.key \o "\":" \o txt ELSE txt
       IN  IF skip THEN stringifyEnts(kind, ents, i + 1, first)
           ELSE (IF first THEN "" ELSE ",") \o item
                \o stringifyEnts(kind, ents, i + 1, FALSE)

stringify(tree) ==
  IF tree.t = "str" THEN "\"" \o tree.s \o "\""
  ELSE IF tree.t \notin {"obj", "arr"} THEN tree.s
  ELSE IF tree.t = "arr" THEN "[" \o stringifyEnts("arr", tree.ents, 1, TRUE) \o "]"
  ELSE "{" \o stringifyEnts("obj", tree.ents, 1, TRUE) \o "}"

createStableJsonString(heap, payload) ==
  stringify(normalize(heap, payload, {}).tree)

\* crypto.ts: signPayload.  HMAC-SHA256 is modelled as an ideal keyed
\* function: the digest text is determined by exactly (secret, message).
\* createHmac makes a new Hmac object in each call.
HmacDigest(secret, msg) == "hmac<" \o secret \o "|" \o msg \o ">"
\* a digest that does not take the payload in
signPayloadOfSecretOnly(payload, secret) == "sha256=" \o HmacDigest(secret, "")
signPayload(payload, secret) == "sha256=" \o HmacDigest(secret, payload)

\* a key built with `|| 'null'`, which takes the number 0 for absent
createIdempotencyKeyFalsy(owner, repo, issueNumber, runId) ==
  owner \o "/" \o repo \o "/"
    \o (IF Truthy(issueNumber) THEN issueNumber.s ELSE "null")
    \o "/" \o runId

\* crypto.ts: createIdempotencyKey.  The template literal renders a number
\* in decimal, and `?? 'null'` renders null and undefined as null
createIdempotencyKey(owner, repo, issueNumber, runId) ==
  owner \o "/" \o repo \o "/"
    \o (IF issueNumber.t \in {"null", "undef"} THEN "null" ELSE issueNumber.s)
    \o "/" \o runId

(***************************************************************************)
(* index.ts: buildJobPayload.  The heap holding the payload the action     *)
(* hands to submitJob; address 1 is the payload itself.                    *)
(***************************************************************************)
PayloadAddr == 1
GithubAddr == 2
RunAddr == 3
JobAddr == 4
AllowAddr == 5
DenyAddr == 6
LlmAddr == 7
VectorAddr == 8
SecretsAddr == 9
ForwardedAddr == 10

Owner == "acme"
Repo == "widgets"
RunId == "789"

\* getGitHubContext
getGitHubContext(issue) ==
  Obj(<< Ent("repository", Str(Owner \o "/" \o Repo)),
         Ent("issue_number", issue),
         Ent("ref", Str("refs/heads/main")),
         Ent("sha", Str("c0ffee")),
         Ent("workflow_run", Ref(RunAddr)),
         Ent("actor", Str("octocat")),
         Ent("token", Str("ghs_token")) >>)

buildJobPayload(issue, tenant, postComment) ==
  << Obj(<< Ent("idempotency_key",
                Str(createIdempotencyKey(Owner, Repo, issue, RunId))),
            Ent("timestamp", Str("2025-01-01T00:00:00.000Z")),
            Ent("tenant", IF Truthy(tenant) THEN tenant ELSE Undefined),
            Ent("github", Ref(GithubAddr)),
            Ent("job", Ref(JobAddr)),
            Ent("secrets", Ref(SecretsAddr)),
            Ent("openai_api_key", Undefined),
            Ent("llm_api_key", Str("sk-llm")),
            Ent("post_comment", IF Truthy(postComment) THEN True ELSE Undefined) >>),
     getGitHubContext(issue),
     Obj(<< Ent("id", Str(RunId)), Ent("attempt", Str("1")) >>),
     Obj(<< Ent("action", Str("run")),
            Ent("allow_write_paths", Ref(AllowAddr)),
            Ent("deny_write_paths", Ref(DenyAddr)),
            Ent("llm", Ref(LlmAddr)),
            Ent("vectordb", Ref(VectorAddr)) >>),
     Arr(<< Str("src/"), Str("docs/") >>),
     Arr(<< >>),
     Obj(<< Ent("provider", Str("openai")), Ent("model", Null) >>),
     Obj(<< Ent("url", Null) >>),
     Obj(<< Ent("forwarded", Ref(ForwardedAddr)) >>),
     Obj(<< Ent("vectordb_token", Null) >>) >>

\* the issue numbers, tenants and post_comment flags the payloads are built from
PayloadInputs ==
  { [issue |-> Null, tenant |-> Undefined, post_comment |-> True],
    [issue |-> Num(42), tenant |-> Str("tenant-a"), post_comment |-> Undefined] }

(***************************************************************************)
(* client.ts: ECSClient.submitJob, up to the call of makeRequestWithRetry. *)
(***************************************************************************)
ApiToken == "api-token"
HmacSecret == "hmac-secret"

\* the issue number duplicated when it is truthy
EnrichTruthyIssue(heap, payload) ==
  LET issue == Get(heap, Get(heap, payload, "github"), "issue_number")
      copy == heap[payload.r].ents
  IN  Append(heap, Obj(IF Truthy(issue)
                       THEN Append(copy, Ent("issue_number", issue))
                       ELSE copy))

\* the issue number written into the caller's object, and the enriched
\* payload an alias of it
EnrichInPlace(heap, payload) ==
  LET issue == Get(heap, Get(heap, payload, "github"), "issue_number")
      same == heap[payload.r].ents
      ents == IF issue.t = "num" THEN Append(same, Ent("issue_number", issue)) ELSE same
  IN  Append([heap EXCEPT ![payload.r] = Obj(ents)], Obj(ents))

\* { ...payload } and the duplicated top-level issue_number: the copy is a
\* new object at the next free address
Enrich(heap, payload) ==
  LET issue == Get(heap, Get(heap, payload, "github"), "issue_number")
      copy == heap[payload.r].ents
  IN  Append(heap, Obj(IF issue.t = "num"
                       THEN Append(copy, Ent("issue_number", issue))
                       ELSE copy))

EnrichedRef(heap) == Ref(Len(heap) + 1)

\* header names with the issue header added for a truthy issue number only
HeaderNamesTruthyIssue(heap, e) ==
  LET gh == Get(heap, e, "github")
  IN  {"Content-Type", "User-Agent", "X-ResolveAI-Token", "X-ResolveAI-Signature",
       "X-ResolveAI-Idempotency-Key", "X-ResolveAI-Repo"}
      \cup (IF Truthy(Get(heap, gh, "issue_number")) THEN {"X-ResolveAI-Issue"} ELSE {})
      \cup (IF Truthy(Get(heap, gh, "ref")) THEN {"X-ResolveAI-Ref"} ELSE {})
      \cup (IF Truthy(Get(heap, gh, "sha")) THEN {"X-ResolveAI-Sha"} ELSE {})
      \cup (IF Truthy(Get(heap, e, "tenant")) THEN {"X-ResolveAI-Tenant"} ELSE {})
      \cup (IF Truthy(Get(heap, e, "post_comment")) THEN {"X-ResolveAI-Post-Comment"} ELSE {})
      \cup (IF Truthy(Get(heap, gh, "event_name")) THEN {"X-ResolveAI-Event"} ELSE {})

\* the headers of the request, as the set of header names present and their values
HeaderNames(heap, e) ==
  LET gh == Get(heap, e, "github")
  IN  {"Content-Type", "User-Agent", "X-ResolveAI-Token", "X-ResolveAI-Signature",
       "X-ResolveAI-Idempotency-Key", "X-ResolveAI-Repo"}
      \cup (IF Get(heap, gh, "issue_number").t = "num" THEN {"X-ResolveAI-Issue"} ELSE {})
      \cup (IF Truthy(Get(heap, gh, "ref")) THEN {"X-ResolveAI-Ref"} ELSE {})
      \cup (IF Truthy(Get(heap, gh, "sha")) THEN {"X-ResolveAI-Sha"} ELSE {})
      \cup (IF Truthy(Get(heap, e, "tenant")) THEN {"X-ResolveAI-Tenant"} ELSE {})
      \cup (IF Truthy(Get(heap, e, "post_comment")) THEN {"X-ResolveAI-Post-Comment"} ELSE {})
      \cup (IF Truthy(Get(heap, gh, "event_name")) THEN {"X-ResolveAI-Event"} ELSE {})

HeaderValue(heap, e, signature, n) ==
  LET gh == Get(heap, e, "github")
  IN  CASE n = "Content-Type" -> "application/json"
        [] n = "User-Agent" -> "resolveai-action/1.0.0 (+github actions)"
        [] n = "X-ResolveAI-Token" -> ApiToken
        [] n = "X-ResolveAI-Signature" -> signature
        [] n = "X-ResolveAI-Idempotency-Key" -> Get(heap, e, "idempotency_key").s
        [] n = "X-ResolveAI-Repo" -> Get(heap, gh, "repository").s
        [] n = "X-ResolveAI-Issue" -> Get(heap, gh, "issue_number").s
        [] n = "X-ResolveAI-Ref" -> Get(heap, gh, "ref").s
        [] n = "X-ResolveAI-Sha" -> Get(heap, gh, "sha").s
        [] n = "X-ResolveAI-Tenant" -> Get(heap, e, "tenant").s
        [] n = "X-ResolveAI-Post-Comment" -> "1"
        [] n = "X-ResolveAI-Event" -> Get(heap, gh, "event_name").s

\* a signature computed over the payload as it was before it was enriched
SignedStringBeforeEnrich(heap, e) == createStableJsonString(heap, Ref(PayloadAddr))

\* the string that is signed and the string that is handed on as the body
SignedString(heap, e) == createStableJsonString(heap, e)
RequestBody(heap, e) == createStableJsonString(heap, e)

BuildHeaders(heap, e) ==
  LET signature == signPayload(SignedString(heap, e), HmacSecret)
  IN  [n \in HeaderNames(heap, e) |-> HeaderValue(heap, e, signature, n)]

(***************************************************************************)
(* client.ts: the helpers of makeRequestWithRetry.                         *)
(***************************************************************************)
Err(name, code, status, message) ==
  [name |-> name, code |-> code, status |-> status, message |-> message]
\* null / no error; code "" and status 0 stand for an undefined property
NoError == Err("", "", 0, "")

\* a classification that also retries every 4xx
shouldRetryAny4xx(status) == status >= 400

shouldRetry(status) == status = 408 \/ status = 429 \/ status >= 500

\* a classification that retries the deadline only
shouldRetryErrorTimeoutOnly(error) == error.code = "TIMEOUT"

shouldRetryError(error) ==
  \/ error.code = "TIMEOUT"
  \/ error.code = "ECONNRESET"
  \/ error.code = "ENOTFOUND"
  \/ error.code = "ECONNREFUSED"

Pow2(n) == 2 ^ n

\* a delay that does not grow with the attempt index
calculateBackoffNoGrowth(backoffMs, att, rnd) ==
  (backoffMs * (3 * rnd + 8500)) \div 10000

\* a jitter factor drawn from [0.8, 1.2)
calculateBackoffWideJitter(backoffMs, att, rnd) ==
  (backoffMs * Pow2(att) * (4 * rnd + 8000)) \div 10000

\* Math.random() is rnd / 1000 with rnd in 0..999;
\* floor(backoffMs * 2^attempt * (random * 0.3 + 0.85))
calculateBackoff(backoffMs, att, rnd) ==
  (backoffMs * Pow2(att) * (3 * rnd + 8500)) \div 10000

\* response.ok
ResponseOk(status) == status >= 200 /\ status <= 299

\* a response: the status line, and what the body turns out to hold once read
Resp(status, json, jobId, jstatus) ==
  [status |-> status, json |-> json, job_id |-> jobId, jstatus |-> jstatus]
NoResp == Resp(0, FALSE, Undefined, Undefined)

\* a schema whose job_id is optional
SchemaAcceptsOptionalJobId(resp) ==
  /\ resp.json
  /\ resp.jstatus.t = "str"
  /\ resp.jstatus.s \in {"accepted", "rejected"}

\* schema.ts: ecsResponseSchema accepts { job_id: string, status: accepted|rejected }
SchemaAccepts(resp) ==
  /\ resp.json
  /\ resp.job_id.t = "str"
  /\ resp.jstatus.t = "str"
  /\ resp.jstatus.s \in {"accepted", "rejected"}

\* what one run of the loop body decides: retry (sleep, then continue), throw
\* out of makeRequestWithRetry, or return; `last` is lastError afterwards
Decision(kind, err, last, resp) ==
  [kind |-> kind, err |-> err, last |-> last, resp |-> resp]

\* a catch block whose budget test is off by one
CatchBlockOffByOne(err, att, maxRetries, last) ==
  LET error == IF err.name = "AbortError"
               THEN [err EXCEPT !.message = "Request timeout", !.code = "TIMEOUT"]
               ELSE err
  IN  IF shouldRetryError(error) /\ att <= maxRetries
      THEN Decision("retry", error, error, NoResp)
      ELSE Decision("throw", error, last, NoResp)

\* a catch block that throws the error recorded earlier, when there is one
CatchBlockThrowsLastError(err, att, maxRetries, last) ==
  LET error == IF err.name = "AbortError"
               THEN [err EXCEPT !.message = "Request timeout", !.code = "TIMEOUT"]
               ELSE err
  IN  IF shouldRetryError(error) /\ att < maxRetries
      THEN Decision("retry", error, error, NoResp)
      ELSE Decision("throw", IF last # NoError THEN last ELSE error, last, NoResp)

\* the catch block of the loop body
CatchBlock(err, att, maxRetries, last) ==
  LET error == IF err.name = "AbortError"
               THEN [err EXCEPT !.message = "Request timeout", !.code = "TIMEOUT"]
               ELSE err
  IN  IF shouldRetryError(error) /\ att < maxRetries
      THEN Decision("retry", error, error, NoResp)
      ELSE Decision("throw", error, last, NoResp)

\* a response that is not ok, once its text is read
HttpErrorBlock(status, errorText, att, maxRetries, last) ==
  LET error == Err("Error", "", status,
                   "HTTP " \o ToString(status) \o ": " \o errorText)
  IN  IF shouldRetry(status) /\ att < maxRetries
      THEN Decision("retry", error, error, NoResp)
      ELSE CatchBlock(error, att, maxRetries,
                      IF shouldRetry(status) THEN error ELSE last)

\* an ok response, once response.json() has resolved
OkBlock(resp, att, maxRetries, last) ==
  IF ~resp.json
  THEN CatchBlock(Err("FetchError", "", 0, "invalid json"), att, maxRetries, last)
  ELSE IF ~SchemaAccepts(resp)
  THEN CatchBlock(Err("ZodError", "", 0, "invalid response"), att, maxRetries, last)
  ELSE Decision("return", NoError, last, resp)

\* a request whose idempotency key is made anew for each attempt
AttemptRequestKeyPerAttempt(att, body, headers) ==
  [attempt |-> att, body |-> body,
   headers |-> [headers EXCEPT !["X-ResolveAI-Idempotency-Key"] =
                                 @ \o "#" \o ToString(att)]]

\* the request one attempt puts on the wire
AttemptRequest(att, body, headers) ==
  [attempt |-> att, body |-> body, headers |-> headers]

(***************************************************************************)
(* README.md, "ECS API Contract": the remote service.  jobs is the         *)
(* sequence of idempotency keys it created a job for; job i has id jr_i.   *)
(***************************************************************************)
JobId(i) == "jr_" \o ToString(i)
JobsOf(jobs, key) == {i \in 1..Len(jobs) : jobs[i] = key}

\* verifyRequest: the response, and the job table afterwards
verifyRequest(req, jobs) ==
  LET h == req.headers
      key == h["X-ResolveAI-Idempotency-Key"]
      existing == JobsOf(jobs, key)
  IN  IF h["X-ResolveAI-Token"] # ApiToken
      THEN [resp |-> Resp(401, TRUE, Undefined, Undefined), jobs |-> jobs]
      ELSE IF h["X-ResolveAI-Signature"] # signPayload(req.body, HmacSecret)
      THEN [resp |-> Resp(401, TRUE, Undefined, Undefined), jobs |-> jobs]
      ELSE IF existing # {}
      THEN [resp |-> Resp(202, TRUE, Str(JobId(CHOOSE i \in existing : TRUE)),
                          Str("accepted")),
            jobs |-> jobs]
      ELSE [resp |-> Resp(202, TRUE, Str(JobId(Len(jobs) + 1)), Str("accepted")),
            jobs |-> Append(jobs, key)]

(***************************************************************************)
(* crypto.ts evaluated on its own: the arguments are drawn from bounded    *)
(* sets and each library function is applied to them once.                 *)
(***************************************************************************)

\* crypto.ts, second copy of createStableJsonString:
\* JSON.stringify(payload, Object.keys(payload).sort()).  An array replacer
\* is a property list: every object, at any depth, is written with exactly
\* the listed properties it has, in the order of the list; array elements
\* are all written
RECURSIVE replacerTree(_, _, _)
replacerTree(heap, val, keys) ==
  IF val.t # "ref" THEN Leaf(val.t, val.s)
  ELSE LET node == heap[val.r]
       IN  IF node.k = "arr"
           THEN Node("arr", [i \in 1..Len(node.ents) |->
                               Ent("", replacerTree(heap, node.ents[i].val, keys))])
           ELSE Node("obj", [i \in 1..Len(keys) |->
                               Ent(keys[i], replacerTree(heap, Get(heap, val, keys[i]), keys))])

createStableJsonStringReplacer(heap, payload) ==
  LET sorted == SortedEnts(heap[payload.r].ents)
      keys == [i \in 1..Len(sorted) |-> sorted[i].key]
  IN  stringify(replacerTree(heap, payload, keys))

\* rearrangements of a sequence
Reverse(s) == [i \in 1..Len(s) |-> s[Len(s) + 1 - i]]
Rotate(s) == IF s = << >> THEN s ELSE Append(Tail(s), Head(s))
Reorderings(s) ==
  { [i \in 1..Len(s) |-> s[p[i]]] : p \in Permutations(1..Len(s)) } \ {s}

\* the heap with the members of one object or array replaced
WithEnts(heap, addr, ents) == [heap EXCEPT ![addr].ents = ents]
\* the heap with one member of one object or array set to a value
WithVal(heap, addr, i, v) == [heap EXCEPT ![addr].ents[i].val = v]

\* the addresses reachable from an address, itself included
RECURSIVE Reach(_, _, _)
Reach(heap, todo, done) ==
  IF todo = {} THEN done
  ELSE LET a == CHOOSE x \in todo : TRUE
           kids == {heap[a].ents[i].val.r :
                      i \in {j \in 1..Len(heap[a].ents) : heap[a].ents[j].val.t = "ref"}}
       IN  Reach(heap, (todo \cup kids) \ (done \cup {a}), done \cup {a})
\* the ancestors of an address in the value rooted at root, itself included
AncestorsOrSelf(heap, root, a) ==
  {x \in Reach(heap, {root.r}, {}) : a \in Reach(heap, {x}, {})}

\* the payloads submitJob serialises: what buildJobPayload builds, enriched
EnrichedHeaps ==
  { Enrich(buildJobPayload(in.issue, in.tenant, in.post_comment), Ref(PayloadAddr)) :
      in \in PayloadInputs }
RootOf(heap) == Ref(Len(heap))

\* two values handed to createStableJsonString and how the second was
\* derived from the first
CanonInput(kind, a, b, root) == [kind |-> kind, a |-> a, b |-> b, root |-> root]

\* longest array whose element orders are explored
MaxArrayLen == 3
\* the array elements explored
Elems == {Str("a"), Str("b"), Num(1), Null}
\* arrays with at least two distinct elements
MixedArrays ==
  UNION { {s \in [1..n -> Elems] : Cardinality({s[i] : i \in 1..n}) >= 2} :
            n \in 2..MaxArrayLen }

ObjAddrs(heap) ==
  {a \in Reach(heap, {Len(heap)}, {}) : heap[a].k = "obj" /\ Len(heap[a].ents) >= 2}
\* the containers none of whose members is a container
LeafAddrs(heap) ==
  {a \in Reach(heap, {Len(heap)}, {}) :
     \A i \in 1..Len(heap[a].ents) : heap[a].ents[i].val.t # "ref"}
\* the members of the containers of a value, as (address, index)
Members(heap) ==
  UNION { {<< a, i >> : i \in 1..Len(heap[a].ents)} : a \in Reach(heap, {Len(heap)}, {}) }
AllReversed(heap) ==
  [a \in 1..Len(heap) |->
     IF heap[a].k = "obj" THEN [heap[a] EXCEPT !.ents = Reverse(@)] ELSE heap[a]]
Changed(v) == IF v = Str("changed") THEN Null ELSE Str("changed")

\* the same value with the properties of an object inserted in another order
KeyOrderInputs ==
  UNION { { CanonInput("keyorder", H, AllReversed(H), RootOf(H)) }
          \cup UNION { { CanonInput("keyorder", H, WithEnts(H, a, p), RootOf(H)) :
                           p \in {Reverse(H[a].ents), Rotate(H[a].ents)} } :
                       a \in ObjAddrs(H) } :
          H \in EnrichedHeaps }

\* the same value with one field, at any depth, given another value
FieldInputs ==
  UNION { { CanonInput("field", H, WithVal(H, m[1], m[2], Changed(H[m[1]].ents[m[2]].val)),
                       RootOf(H)) : m \in Members(H) } :
          H \in EnrichedHeaps }

\* the same value with the elements of one array in another order
ArrayHeaps ==
  { << Obj(<< Ent("job", Ref(2)) >>), Arr(s) >> : s \in MixedArrays }
  \cup { << Arr(<< Str("a"), Ref(2) >>), Arr(s) >> : s \in MixedArrays }
ArrayOrderInputs ==
  UNION { { CanonInput("arrayorder", H, WithEnts(H, 2, p), Ref(1)) :
              p \in Reorderings(H[2].ents) } : H \in ArrayHeaps }
  \cup UNION { { CanonInput("arrayorder", H, WithEnts(H, AllowAddr, p), RootOf(H)) :
                   p \in Reorderings(H[AllowAddr].ents) } : H \in EnrichedHeaps }
  \cup { CanonInput("arrayorder",
                    << Arr(<< Ref(2), Ref(3) >>), Obj(<< Ent("id", Num(1)) >>),
                       Obj(<< Ent("id", Num(2)) >>) >>,
                    << Arr(<< Ref(3), Ref(2) >>), Obj(<< Ent("id", Num(1)) >>),
                       Obj(<< Ent("id", Num(2)) >>) >>,
                    Ref(1)) }

\* a value one member of which refers back to an ancestor, and the same
\* value with null at that position
CycleInputs ==
  UNION { UNION { { CanonInput("cycle", WithVal(H, m[1], m[2], Ref(anc)),
                               WithVal(H, m[1], m[2], Null), RootOf(H)) :
                      anc \in AncestorsOrSelf(H, RootOf(H), m[1]) } :
                  m \in Members(H) } :
          H \in EnrichedHeaps }

\* a value in which one container is used at a second, non-ancestor
\* position, and the same value with a separate equal copy at that position
SharingInputs ==
  UNION { UNION { { CanonInput("sharing", WithVal(H, m[1], m[2], Ref(c)),
                               WithVal(Append(H, H[c]), m[1], m[2], Ref(Len(H) + 1)),
                               RootOf(H)) :
                      c \in {x \in LeafAddrs(H) :
                               x \notin AncestorsOrSelf(H, RootOf(H), m[1])} } :
                  m \in {n \in Members(H) : H[n[1]].ents[n[2]].val.t # "ref"} } :
          H \in EnrichedHeaps }

CanonInputs ==
  KeyOrderInputs \cup FieldInputs \cup ArrayOrderInputs \cup CycleInputs \cup SharingInputs

(***************************************************************************)
(* The state of one submitJob call and of its environment.                 *)
(***************************************************************************)
VARIABLES
  cfg,        \* this.retryConfig
  heap,       \* the JavaScript heap: the payload and what submitJob allocates
  pc,         \* idle | fetch (await fetch) | body (await json()/text())
              \* | sleep (await sleep) | done
  attempt,    \* the loop variable of makeRequestWithRetry
  body,       \* the body parameter of makeRequestWithRetry
  headers,    \* the headers parameter of makeRequestWithRetry
  lastError,  \* the local lastError
  outcome,    \* how submitJob ended: the value returned or the error thrown
  resp,       \* the response whose body is being read
  timers,     \* per attempt, the setTimeout of its AbortController
  overdue,    \* the deadline of the attempt in flight has passed
  sent,       \* every request put on the wire, in order
  wire,       \* the attempts whose request has not reached the service yet
  jobs,       \* the remote service's job table
  slept,      \* how many backoff sleeps were started
  delay,      \* the delay of the backoff sleep started last
  failed,     \* the attempt that failed last and what was observed of the failure
  fin,        \* the arguments of the library function under evaluation
  fout,       \* what that function returned
  fpc,        \* off | in (arguments chosen) | out (function returned)
  calls       \* the locals of each of two submitJob calls in flight together

\* the variables outside the single submitJob call
aux == << fin, fout, fpc, calls >>

vars == << cfg, heap, pc, attempt, body, headers, lastError, outcome, resp,
           timers, overdue, sent, wire, jobs, slept, delay, failed, aux >>

Payload == Ref(PayloadAddr)

\* Math.random(), in thousandths
Jitters == {0, 999}
\* backoff_ms values explored (schema.ts allows 0..5000)
Backoffs == {500}
\* timeout_seconds values explored (schema.ts allows 1..600)
Timeouts == {120}
\* error codes a failed fetch or body read can carry
NetCodes == {"ECONNRESET", "ENOTFOUND", "ECONNREFUSED", "ETIMEDOUT"}
\* statuses an intermediary or the service can answer with, besides 2xx
ErrorStatuses == {404, 429, 503, 600}
\* 2xx responses whose body is not the expected shape
BadShapes ==
  { Resp(202, TRUE, Undefined, Str("accepted")),
    Resp(200, TRUE, Str("jr_x"), Str("queued")),
    Resp(200, FALSE, Undefined, Undefined) }
GatewayResponses ==
  {Resp(st, FALSE, Undefined, Undefined) : st \in ErrorStatuses} \cup BadShapes

\* what the environment did to make an attempt fail: a response status
\* (http), a system error code (net), the deadline (timeout), or a 2xx body
\* of the wrong shape (shape)
Failure(att, kind, code, status) ==
  [attempt |-> att, kind |-> kind, code |-> code, status |-> status]
HttpFailure(att, r) ==
  IF ResponseOk(r.status)
  THEN Failure(att, "shape", IF r.json THEN "json" ELSE "text", r.status)
  ELSE Failure(att, "http", "", r.status)

NoTimer == [st |-> "none", ms |-> 0]
Outcome(kind, err, r) ==
  [kind |-> kind, err |-> err, job_id |-> r.job_id.s, status |-> r.jstatus.s]
NoOutcome == [kind |-> "none", err |-> NoError, job_id |-> "", status |-> ""]

Init ==
  /\ cfg \in [maxRetries : 0..MaxRetriesBound, backoffMs : Backoffs,
              timeoutSeconds : Timeouts]
  /\ \E in \in PayloadInputs :
       heap = buildJobPayload(in.issue, in.tenant, in.post_comment)
  /\ pc = "idle"
  /\ attempt = 0
  /\ body = ""
  /\ headers = << >>
  /\ lastError = NoError
  /\ outcome = NoOutcome
  /\ resp = NoResp
  /\ timers = [k \in 0..MaxRetriesBound |-> NoTimer]
  /\ overdue = FALSE
  /\ sent = << >>
  /\ wire = {}
  /\ jobs = << >>
  /\ slept = 0
  /\ delay = 0
  /\ failed = Failure(-1, "", "", 0)
  /\ fin = [kind |-> "none"]
  /\ fout = [kind |-> "none"]
  /\ fpc = "off"
  /\ calls = << >>

\* the head of the loop body: a new AbortController, its timer, and fetch
IssueAttempt(att, b, h) ==
  /\ timers' = [timers EXCEPT ![att] = [st |-> "armed", ms |-> cfg.timeoutSeconds * 1000]]
  /\ sent' = Append(sent, AttemptRequest(att, b, h))
  /\ wire' = wire \cup {att}
  /\ pc' = "fetch"

\* the effect of what the loop body decided
Apply(d, ev, rnd) ==
  /\ lastError' = d.last
  /\ resp' = IF d.kind = "return" THEN resp ELSE NoResp
  /\ overdue' = FALSE
  /\ failed' = IF d.kind = "return" THEN failed ELSE ev
  /\ CASE d.kind = "retry" ->
            /\ pc' = "sleep"
            /\ slept' = slept + 1
            /\ delay' = calculateBackoff(cfg.backoffMs, attempt, rnd)
            /\ UNCHANGED outcome
       [] d.kind = "throw" ->
            /\ pc' = "done"
            /\ outcome' = Outcome("error", d.err, NoResp)
            /\ UNCHANGED << slept, delay >>
       [] d.kind = "return" ->
            /\ pc' = "done"
            /\ outcome' = Outcome("ok", NoError, d.resp)
            /\ UNCHANGED << slept, delay >>

\* a loop that stops one attempt early
LoopConditionStrict(att, maxRetries) == att < maxRetries
\* for (...; attempt <= this.retryConfig.maxRetries; ...)
LoopCondition(att, maxRetries) == att <= maxRetries

\* submitJob: enrich, stringify, sign, build the headers, and the first
\* run of the loop up to its await fetch
SubmitJob ==
  /\ pc = "idle"
  /\ LET h2 == Enrich(heap, Payload)
         e == EnrichedRef(heap)
         b == RequestBody(h2, e)
         h == BuildHeaders(h2, e)
     IN  /\ heap' = h2
         /\ body' = b
         /\ headers' = h
         /\ attempt' = 0
         /\ lastError' = NoError
         /\ IF LoopCondition(0, cfg.maxRetries)
            THEN IssueAttempt(0, b, h) /\ UNCHANGED outcome
            ELSE /\ pc' = "done"
                 /\ outcome' = Outcome("error", Err("Error", "", 0, "Maximum retries exceeded"), NoResp)
                 /\ UNCHANGED << timers, sent, wire >>
  /\ UNCHANGED aux
  /\ UNCHANGED << cfg, resp, overdue, jobs, slept, delay, failed >>

\* fetch resolves with a response: clearTimeout, then the body is awaited
FetchResolves(r) ==
  /\ timers' = [timers EXCEPT ![attempt].st = "cleared"]
  /\ resp' = r
  /\ pc' = "body"

\* the service handles the request of attempt k; its response reaches the
\* client only if that attempt is still waiting for it
ServiceHandles(k, delivered) ==
  /\ k \in wire
  /\ LET v == verifyRequest(sent[k + 1], jobs)
     IN  /\ jobs' = v.jobs
         /\ wire' = wire \ {k}
         /\ IF delivered
            THEN pc = "fetch" /\ attempt = k /\ FetchResolves(v.resp)
            ELSE UNCHANGED << pc, resp, timers >>
  /\ UNCHANGED aux
  /\ UNCHANGED << cfg, heap, attempt, body, headers, lastError, outcome, overdue,
                  sent, slept, delay, failed >>

\* an intermediary (proxy, load balancer) answers the attempt in flight
GatewayResponds(r) ==
  /\ pc = "fetch"
  /\ FetchResolves(r)
  /\ UNCHANGED aux
  /\ UNCHANGED << cfg, heap, attempt, body, headers, lastError, outcome, overdue,
                  sent, wire, jobs, slept, delay, failed >>

\* fetch rejects with a system error: the catch block runs
FetchRejects(code, rnd) ==
  /\ pc = "fetch"
  /\ Apply(CatchBlock(Err("FetchError", code, 0, "request failed"),
                      attempt, cfg.maxRetries, lastError),
           Failure(attempt, "net", code, 0), rnd)
  /\ UNCHANGED aux
  /\ UNCHANGED << cfg, heap, attempt, body, headers, timers, sent, wire, jobs >>

\* response.json() or response.text() settles
BodyRead(rnd) ==
  /\ pc = "body"
  /\ Apply(IF ResponseOk(resp.status)
           THEN OkBlock(resp, attempt, cfg.maxRetries, lastError)
           ELSE HttpErrorBlock(resp.status, "error text", attempt, cfg.maxRetries,
                               lastError),
           HttpFailure(attempt, resp), rnd)
  /\ UNCHANGED aux
  /\ UNCHANGED << cfg, heap, attempt, body, headers, timers, sent, wire, jobs >>

\* the body stream breaks while it is read: json() rejects with the system
\* error, text() is caught and replaced by 'Unknown error'
BodyFails(code, rnd) ==
  /\ pc = "body"
  /\ Apply(IF ResponseOk(resp.status)
           THEN CatchBlock(Err("FetchError", code, 0, "invalid response body"),
                           attempt, cfg.maxRetries, lastError)
           ELSE HttpErrorBlock(resp.status, "Unknown error", attempt,
                               cfg.maxRetries, lastError),
           IF ResponseOk(resp.status) THEN Failure(attempt, "net", code, 0)
           ELSE HttpFailure(attempt, resp), rnd)
  /\ UNCHANGED aux
  /\ UNCHANGED << cfg, heap, attempt, body, headers, timers, sent, wire, jobs >>

\* a timer whose abort reaches whichever fetch is pending: one controller
\* shared by the attempts
TimerFiresSharedController(k, rnd) ==
  /\ timers[k].st = "armed"
  /\ \A j \in 0..(k - 1) : timers[j].st # "armed"
  /\ timers' = [timers EXCEPT ![k].st = "fired"]
  /\ IF pc = "fetch"
     THEN Apply(CatchBlock(Err("AbortError", "", 0, "The user aborted a request."),
                           attempt, cfg.maxRetries, lastError),
                Failure(attempt, "timeout", "", 0), rnd)
     ELSE UNCHANGED << pc, lastError, outcome, resp, overdue, slept, delay, failed >>
  /\ UNCHANGED aux
  /\ UNCHANGED << cfg, heap, attempt, body, headers, sent, wire, jobs >>

\* the deadline of attempt k passes with its timer armed: the timer fires
\* (timers of equal duration fire in the order they were set) and calls
\* controller.abort(); the fetch that was given this controller's signal
\* rejects with an AbortError if it is still pending
TimerFires(k, rnd) ==
  /\ timers[k].st = "armed"
  /\ \A j \in 0..(k - 1) : timers[j].st # "armed"
  /\ timers' = [timers EXCEPT ![k].st = "fired"]
  /\ IF pc = "fetch" /\ attempt = k
     THEN Apply(CatchBlock(Err("AbortError", "", 0, "The user aborted a request."),
                           attempt, cfg.maxRetries, lastError),
                Failure(attempt, "timeout", "", 0), rnd)
     ELSE UNCHANGED << pc, lastError, outcome, resp, overdue, slept, delay, failed >>
  /\ UNCHANGED aux
  /\ UNCHANGED << cfg, heap, attempt, body, headers, sent, wire, jobs >>

\* a loop that goes on to the next attempt without awaiting the one in flight
SleepEndsWithoutAwait ==
  /\ pc \in {"sleep", "fetch"}
  /\ attempt + 1 <= cfg.maxRetries
  /\ attempt' = attempt + 1
  /\ IssueAttempt(attempt + 1, body, headers)
  /\ UNCHANGED aux
  /\ UNCHANGED << cfg, heap, body, headers, lastError, outcome, resp, overdue,
                  jobs, slept, delay, failed >>

\* the backoff sleep ends: continue, attempt++, the loop condition, and the
\* next run of the loop body up to its await fetch
SleepEnds ==
  /\ pc = "sleep"
  /\ attempt' = attempt + 1
  /\ IF LoopCondition(attempt + 1, cfg.maxRetries)
     THEN IssueAttempt(attempt + 1, body, headers) /\ UNCHANGED outcome
     ELSE /\ pc' = "done"
          /\ outcome' = Outcome("error",
                                IF lastError # NoError THEN lastError
                                ELSE Err("Error", "", 0, "Maximum retries exceeded"),
                                NoResp)
          /\ UNCHANGED << timers, sent, wire >>
  /\ UNCHANGED aux
  /\ UNCHANGED << cfg, heap, body, headers, lastError, resp, overdue, jobs, slept, delay, failed >>

\* the deadline of the attempt in flight passes while its body is being
\* read: its timer was cleared when fetch resolved, so nothing fires
DeadlinePasses ==
  /\ pc = "body"
  /\ timers[attempt].st = "cleared"
  /\ ~overdue
  /\ overdue' = TRUE
  /\ UNCHANGED aux
  /\ UNCHANGED << cfg, heap, pc, attempt, body, headers, lastError, outcome,
                  resp, timers, sent, wire, jobs, slept, delay, failed >>

Next ==
  \/ SubmitJob
  \/ \E k \in 0..MaxRetriesBound, d \in BOOLEAN : ServiceHandles(k, d)
  \/ \E r \in GatewayResponses : GatewayResponds(r)
  \/ \E c \in NetCodes, rnd \in Jitters : FetchRejects(c, rnd)
  \/ \E rnd \in Jitters : BodyRead(rnd)
  \/ \E c \in NetCodes, rnd \in Jitters : BodyFails(c, rnd)
  \/ \E k \in 0..MaxRetriesBound, rnd \in Jitters : TimerFires(k, rnd)
  \/ SleepEnds
  \/ DeadlinePasses

Spec == Init /\ [][Next]_vars

(***************************************************************************)
(* The retry rules as the specification states them, for the properties.   *)
(***************************************************************************)
\* 408, 429 or 500..599
StatedRetryableStatus(st) == st = 408 \/ st = 429 \/ (st >= 500 /\ st <= 599)
\* connection refused, host unresolved, connection reset
StatedRetryableCodes == {"ECONNREFUSED", "ENOTFOUND", "ECONNRESET"}
\* the failure observed is one the specification calls retryable
StatedRetryable(f) ==
  \/ f.kind = "http" /\ StatedRetryableStatus(f.status)
  \/ f.kind = "net" /\ f.code \in StatedRetryableCodes
  \/ f.kind = "timeout"
\* the attempt of the current loop index has ended in a failure
AttemptFailed == pc # "idle" /\ failed.attempt = attempt
EndedWithError == pc = "done" /\ outcome.kind = "error"

\* C1 (exhausted retries): no attempt beyond index maxRetries is ever issued,
\* and an attempt that fails retryably is followed by a backoff wait while
\* budget remains (submitJob does not end early) and by a terminal error,
\* after exactly maxRetries + 1 attempts, when it is attempt maxRetries.
C1_ExhaustedRetries ==
  /\ Len(sent) <= cfg.maxRetries + 1
  /\ \A i \in 1..Len(sent) : sent[i].attempt = i - 1
  /\ (AttemptFailed /\ StatedRetryable(failed)) =>
       IF attempt < cfg.maxRetries
       THEN pc = "sleep" /\ outcome.kind = "none"
       ELSE EndedWithError /\ Len(sent) = cfg.maxRetries + 1

C1_Witness ==
  /\ cfg.maxRetries = 2
  /\ EndedWithError
  /\ StatedRetryable(failed)
  /\ failed.attempt = 2
  /\ Len(sent) = 3

\* C2 (non-retryable failure is immediate): when an attempt completes with a
\* 4xx status other than 408 and 429, submitJob has ended with an error that
\* carries that status, every backoff wait started belongs to an earlier
\* attempt, and no later attempt was issued, whatever budget remains.
C2_NonRetryableImmediate ==
  (AttemptFailed /\ failed.kind = "http"
     /\ failed.status >= 400 /\ failed.status <= 499
     /\ failed.status \notin {408, 429}) =>
    /\ EndedWithError
    /\ outcome.err.status = failed.status
    /\ slept = attempt
    /\ Len(sent) = attempt + 1

C2_Witness ==
  /\ cfg.maxRetries = 2
  /\ attempt = 1
  /\ AttemptFailed
  /\ failed.kind = "http"
  /\ failed.status = 404
  /\ EndedWithError

\* C3 (classification of responses, as stated): a response with a status
\* outside 200..299 is retried if and only if the status is 408, 429 or in
\* 500..599.
C3_ClassificationAsStated ==
  (AttemptFailed /\ failed.kind = "http" /\ attempt < cfg.maxRetries) =>
    (pc = "sleep" <=> StatedRetryableStatus(failed.status))

\* C4 (transport failures are retried): an attempt that fails with connection
\* refused, host unresolved, connection reset or its deadline is followed by a
\* backoff wait when budget remains, and the step that ends that wait issues
\* the next attempt; on attempt maxRetries that same error ends submitJob.
C4_TransportFailureRetried ==
  [][ /\ (failed' # failed /\ failed'.kind \in {"net", "timeout"}
            /\ (failed'.kind = "net" => failed'.code \in StatedRetryableCodes)) =>
          IF attempt < cfg.maxRetries
          THEN pc' = "sleep" /\ slept' = slept + 1 /\ outcome' = outcome
          ELSE /\ pc' = "done"
               /\ outcome'.kind = "error"
               /\ outcome'.err.code =
                    (IF failed'.kind = "timeout" THEN "TIMEOUT" ELSE failed'.code)
      /\ (pc = "sleep" /\ pc' # "sleep") =>
          /\ pc' = "fetch"
          /\ attempt' = attempt + 1
          /\ sent' = Append(sent, AttemptRequest(attempt + 1, body, headers))
    ]_vars

C4_Witness ==
  /\ cfg.maxRetries = 2
  /\ attempt = 2
  /\ slept = 2
  /\ AttemptFailed
  /\ failed.kind = "net"
  /\ failed.code = "ECONNREFUSED"
  /\ EndedWithError
  /\ outcome.err.code = "ECONNREFUSED"

\* C5 (per-attempt deadline, as stated): no attempt is still in flight, its
\* response not yet handed over for validation, after its deadline has passed.
C5_NoAttemptBeyondDeadline == ~(pc \in {"fetch", "body"} /\ overdue)

\* C6 (response shape validation): submitJob returns a result only from a 2xx
\* response whose body is JSON with a string job_id and a status accepted or
\* rejected, and returns these two values; a 2xx response whose body that was
\* read has another shape ends submitJob with a validation error, without a
\* backoff wait and without a further attempt.
C6_ResponseShapeValidation ==
  /\ outcome.kind = "ok" =>
       /\ resp.status >= 200 /\ resp.status <= 299
       /\ resp.json
       /\ resp.job_id.t = "str"
       /\ resp.jstatus.t = "str"
       /\ resp.jstatus.s \in {"accepted", "rejected"}
       /\ outcome.job_id = resp.job_id.s
       /\ outcome.status = resp.jstatus.s
  /\ (AttemptFailed /\ failed.kind = "shape") =>
       /\ EndedWithError
       /\ outcome.err.name = (IF failed.code = "json" THEN "ZodError" ELSE "FetchError")
       /\ slept = attempt
       /\ Len(sent) = attempt + 1

C6_Witness ==
  /\ cfg.maxRetries = 2
  /\ attempt = 0
  /\ AttemptFailed
  /\ failed.kind = "shape"
  /\ failed.status = 202
  /\ EndedWithError
  /\ outcome.err.name = "ZodError"

\* C7 (the last error is the terminal error): when submitJob ends with an
\* error on attempt maxRetries, that error is the one observed on that
\* attempt: the status of its response, the code of its system error, or the
\* timeout of its deadline.
C7_LastErrorIsTerminal ==
  (EndedWithError /\ attempt = cfg.maxRetries) =>
    /\ failed.attempt = attempt
    /\ failed.kind = "http" =>
         outcome.err.name = "Error" /\ outcome.err.status = failed.status
    /\ failed.kind = "net" =>
         outcome.err.name = "FetchError" /\ outcome.err.code = failed.code
    /\ failed.kind = "timeout" =>
         outcome.err.code = "TIMEOUT" /\ outcome.err.message = "Request timeout"
    /\ failed.kind = "shape" => outcome.err.name \in {"ZodError", "FetchError"}

C7_Witness ==
  /\ cfg.maxRetries = 2
  /\ attempt = 2
  /\ EndedWithError
  /\ failed.kind = "http"
  /\ failed.status = 503
  /\ outcome.err.status = 503

\* C8 (end-to-end deduplication): the service, which deduplicates on the
\* idempotency-key header, has created at most one job, under the key of the
\* payload, however many requests of this submitJob call reached it; and a
\* result returned by submitJob carries the id of that job.
C8_AtMostOneJob ==
  /\ Len(jobs) <= 1
  /\ \A i \in 1..Len(jobs) : jobs[i] = Get(heap, Payload, "idempotency_key").s
  /\ outcome.kind = "ok" => Len(jobs) = 1 /\ outcome.job_id = JobId(1)

C8_Witness ==
  /\ Len(sent) = 3
  /\ wire = {}
  /\ Len(jobs) = 1
  /\ outcome.kind = "ok"
  /\ outcome.job_id = JobId(1)

\* C9 (signed bytes are the transmitted bytes): every request put on the wire
\* carries the body computed before the first attempt, a signature header
\* that is the signature of exactly that body, the idempotency key of the
\* payload, and the same headers as the first attempt.
C9_SignedBytesAreSentBytes ==
  \A i \in 1..Len(sent) :
    /\ sent[i].body = body
    /\ sent[i].body = sent[1].body
    /\ sent[i].headers = sent[1].headers
    /\ sent[i].headers["X-ResolveAI-Signature"] = signPayload(sent[i].body, HmacSecret)
    /\ sent[i].headers["X-ResolveAI-Idempotency-Key"]
         = Get(heap, Payload, "idempotency_key").s

C9_Witness ==
  /\ Len(sent) = 3
  /\ Get(heap, Get(heap, Payload, "github"), "issue_number").t = "num"
  /\ sent[3].headers["X-ResolveAI-Signature"] = signPayload(sent[3].body, HmacSecret)

\* C10 (sequential attempts): a request is put on the wire only by the first
\* run of the loop or by the step that ends a backoff wait, one at a time,
\* never while an attempt is in flight; the wait it follows was started after
\* the previous attempt had failed.
C10_SequentialAttempts ==
  [][ Len(sent') > Len(sent) =>
        /\ pc \in {"idle", "sleep"}
        /\ pc' = "fetch"
        /\ Len(sent') = Len(sent) + 1
        /\ pc = "sleep" =>
             /\ failed.attempt = attempt
             /\ slept = attempt + 1
             /\ attempt' = attempt + 1
    ]_vars

C10_Witness ==
  /\ pc = "fetch"
  /\ attempt = 2
  /\ Len(sent) = 3
  /\ slept = 2
  /\ failed.attempt = 1

\* the single submitJob call, not started
TransportParked ==
  /\ cfg = [maxRetries |-> 0, backoffMs |-> 500, timeoutSeconds |-> 120]
  /\ heap = << >>
  /\ pc = "idle"
  /\ attempt = 0
  /\ body = ""
  /\ headers = << >>
  /\ lastError = NoError
  /\ outcome = NoOutcome
  /\ resp = NoResp
  /\ timers = [k \in 0..MaxRetriesBound |-> NoTimer]
  /\ overdue = FALSE
  /\ sent = << >>
  /\ wire = {}
  /\ jobs = << >>
  /\ slept = 0
  /\ delay = 0
  /\ failed = Failure(-1, "", "", 0)
transportVars ==
  << cfg, heap, pc, attempt, body, headers, lastError, outcome, resp,
     timers, overdue, sent, wire, jobs, slept, delay, failed >>

\* createStableJsonString(a), createStableJsonString(b)
Canonicalize ==
  /\ fpc = "in"
  /\ fin.kind \in {"keyorder", "field", "arrayorder", "cycle", "sharing"}
  /\ fout' = [kind |-> fin.kind, fn |-> "createStableJsonString",
              a |-> createStableJsonString(fin.a, fin.root),
              b |-> createStableJsonString(fin.b, fin.root)]
  /\ fpc' = "out"
  /\ UNCHANGED << fin, calls, transportVars >>

\* the second copy of createStableJsonString, on the JobPayload objects
\* its signature admits
CanonicalizeReplacer ==
  /\ fpc = "in"
  /\ fin.kind \in {"keyorder", "field"}
  /\ fout' = [kind |-> fin.kind, fn |-> "createStableJsonStringReplacer",
              a |-> createStableJsonStringReplacer(fin.a, fin.root),
              b |-> createStableJsonStringReplacer(fin.b, fin.root)]
  /\ fpc' = "out"
  /\ UNCHANGED << fin, calls, transportVars >>


(***************************************************************************)
(* crypto.ts: createIdempotencyKey, and client.ts: calculateBackoff, on    *)
(* their own.                                                              *)
(***************************************************************************)
\* owner, repo, issue number (null, undefined or a number) and run id
KeyInputs ==
  { [kind |-> "key", owner |-> o, repo |-> r, issue |-> i, runId |-> run] :
      o \in {"acme", "a"}, r \in {"widgets", "w.x"},
      i \in {Null, Undefined, Num(0), Num(7), Num(42)}, run \in {"789", "1"} }

BuildKey ==
  /\ fpc = "in"
  /\ fin.kind = "key"
  /\ fout' = [kind |-> "key",
              key |-> createIdempotencyKey(fin.owner, fin.repo, fin.issue, fin.runId)]
  /\ fpc' = "out"
  /\ UNCHANGED << fin, calls, transportVars >>

\* largest attempt index a backoff delay is computed for
MaxAttemptIndex == 3
\* backoff_ms values (schema.ts allows 0..5000) and Math.random() in thousandths
BackoffInputs ==
  { [kind |-> "backoff", backoffMs |-> b, att |-> a, rnd |-> r] :
      b \in {0, 1, 7, 500, 5000}, a \in 0..MaxAttemptIndex,
      r \in {0, 1, 333, 500, 667, 998, 999} }

Backoff ==
  /\ fpc = "in"
  /\ fin.kind = "backoff"
  /\ fout' = [kind |-> "backoff", d |-> calculateBackoff(fin.backoffMs, fin.att, fin.rnd)]
  /\ fpc' = "out"
  /\ UNCHANGED << fin, calls, transportVars >>

(***************************************************************************)
(* client.ts: submitJob up to the call of makeRequestWithRetry, on         *)
(* payloads whose optional fields are set, empty or missing.               *)
(***************************************************************************)
\* obj[key] = v
SetProp(hp, addr, key, v) ==
  LET ents == hp[addr].ents
      hits == {i \in 1..Len(ents) : ents[i].key = key}
  IN  IF hits = {} THEN WithEnts(hp, addr, Append(ents, Ent(key, v)))
      ELSE WithVal(hp, addr, CHOOSE i \in hits : TRUE, v)

HeaderInputs ==
  { [kind |-> "headers", issue |-> i, tenant |-> t, ref |-> r, sha |-> s, event |-> e] :
      i \in {Null, Num(0), Num(42)},
      t \in {Undefined, Str(""), Str("tenant-a")},
      r \in {Str(""), Str("refs/heads/main")},
      s \in {Str(""), Str("c0ffee")},
      e \in {Undefined, Str(""), Str("push")} }

\* the JobPayload with these fields
HeaderPayload(in) ==
  LET h0 == buildJobPayload(in.issue, in.tenant, Undefined)
      h1 == SetProp(h0, PayloadAddr, "tenant", in.tenant)
      h2 == SetProp(h1, GithubAddr, "ref", in.ref)
      h3 == SetProp(h2, GithubAddr, "sha", in.sha)
  IN  IF in.event = Undefined THEN h3
      ELSE SetProp(h3, GithubAddr, "event_name", in.event)

\* submitJob: the request of every attempt index the loop can reach
SubmitHeaders ==
  /\ fpc = "in"
  /\ fin.kind = "headers"
  /\ LET hp == HeaderPayload(fin)
         h2 == Enrich(hp, Payload)
         e == EnrichedRef(hp)
         b == RequestBody(h2, e)
         h == BuildHeaders(h2, e)
     IN  fout' = [kind |-> "headers",
                  reqs |-> [att \in 0..MaxRetriesBound |-> AttemptRequest(att, b, h)]]
  /\ fpc' = "out"
  /\ UNCHANGED << fin, calls, transportVars >>

(***************************************************************************)
(* index.ts: run and getAndValidateInputs; schema.ts: actionInputSchema.   *)
(* The text of a numeric input is the sequence of its characters.          *)
(***************************************************************************)
\* a JavaScript number that is an integer, and NaN
IntVal(n) == [nan |-> FALSE, n |-> n]
NaN == [nan |-> TRUE, n |-> 0]

Digits == << "0", "1", "2", "3", "4", "5", "6", "7", "8", "9" >>
IsDigit(c) == \E i \in 1..Len(Digits) : Digits[i] = c
DigitValue(c) == (CHOOSE i \in 1..Len(Digits) : Digits[i] = c) - 1

\* parseInt(text, 10): an optional sign, then the longest run of digits;
\* NaN when there is no digit
RECURSIVE parseDigits(_, _, _)
parseDigits(text, i, acc) ==
  IF i > Len(text) \/ ~IsDigit(text[i]) THEN [n |-> acc, next |-> i]
  ELSE parseDigits(text, i + 1, 10 * acc + DigitValue(text[i]))
parseInt(text) ==
  LET signed == Len(text) > 0 /\ text[1] \in {"-", "+"}
      first == IF signed THEN 2 ELSE 1
      d == parseDigits(text, first, 0)
  IN  IF d.next = first THEN NaN
      ELSE IntVal(IF signed /\ text[1] = "-" THEN 0 - d.n ELSE d.n)

\* core.getInput(name) || dflt
OrDefault(text, dflt) == IF Len(text) = 0 THEN dflt ELSE text
\* z.number().min(lo).max(hi); z.number() rejects NaN
NumberBetween(v, lo, hi) == ~v.nan /\ lo <= v.n /\ v.n <= hi
\* z.string().url(): of the endpoint texts explored, those new URL() accepts
WellFormedUrls == {"https://ecs.example.com/jobs"}

\* a schema whose numbers have no lower limit
actionInputSchemaNoMin(raw) ==
  /\ raw.ecs_endpoint \in WellFormedUrls
  /\ raw.ecs_api_token # ""
  /\ raw.ecs_hmac_secret # ""
  /\ raw.action \in {"run", "plan"}
  /\ ~raw.timeout_seconds.nan /\ raw.timeout_seconds.n <= 600
  /\ ~raw.max_retries.nan /\ raw.max_retries.n <= 10
  /\ ~raw.backoff_ms.nan /\ raw.backoff_ms.n <= 5000

\* actionInputSchema.parse(rawInputs) does not throw
actionInputSchema(raw) ==
  /\ raw.ecs_endpoint \in WellFormedUrls
  /\ raw.ecs_api_token # ""
  /\ raw.ecs_hmac_secret # ""
  /\ raw.action \in {"run", "plan"}
  /\ NumberBetween(raw.timeout_seconds, 1, 600)
  /\ NumberBetween(raw.max_retries, 0, 10)
  /\ NumberBetween(raw.backoff_ms, 0, 5000)

\* getAndValidateInputs: core.getInput with required: true throws on an
\* empty input; then the schema is applied to rawInputs
getAndValidateInputs(in) ==
  LET raw == [ecs_endpoint |-> in.ecs_endpoint,
              ecs_api_token |-> in.ecs_api_token,
              ecs_hmac_secret |-> in.ecs_hmac_secret,
              action |-> IF in.action = "" THEN "run" ELSE in.action,
              timeout_seconds |-> parseInt(OrDefault(in.timeout_seconds.text, << "1", "2", "0" >>)),
              max_retries |-> parseInt(OrDefault(in.max_retries.text, << "4" >>)),
              backoff_ms |-> parseInt(OrDefault(in.backoff_ms.text, << "5", "0", "0" >>))]
      supplied == in.ecs_endpoint # "" /\ in.ecs_api_token # "" /\ in.ecs_hmac_secret # ""
  IN  [ok |-> supplied /\ actionInputSchema(raw), inputs |-> raw]

NoRetryConfig == [maxRetries |-> 0, backoffMs |-> 0, timeoutSeconds |-> 0]

\* run: what it has done when it reaches the first await of submitJob, or
\* its catch block.  attempts counts the requests issued by then: the loop
\* of makeRequestWithRetry issues attempt 0 when 0 <= maxRetries
run(in) ==
  LET v == getAndValidateInputs(in)
      rc == [maxRetries |-> v.inputs.max_retries.n,
             backoffMs |-> v.inputs.backoff_ms.n,
             timeoutSeconds |-> v.inputs.timeout_seconds.n]
  IN  IF ~v.ok
      THEN [kind |-> "run", failed |-> TRUE, client |-> FALSE,
            retryConfig |-> NoRetryConfig, attempts |-> 0]
      ELSE [kind |-> "run", failed |-> FALSE, client |-> TRUE,
            retryConfig |-> rc, attempts |-> IF 0 <= rc.maxRetries THEN 1 ELSE 0]

\* the text of a numeric input, whether it is a number and which
NumText(text, numeric, value) == [text |-> text, numeric |-> numeric, value |-> value]
Unset == NumText(<< >>, FALSE, 0)
NotANumber == NumText(<< "a", "b" >>, FALSE, 0)
MinusOne == NumText(<< "-", "1" >>, TRUE, -1)

RunInputs ==
  { [kind |-> "run", ecs_endpoint |-> u, ecs_api_token |-> t,
     ecs_hmac_secret |-> HmacSecret, action |-> a,
     max_retries |-> m, timeout_seconds |-> ts, backoff_ms |-> b] :
      u \in {"https://ecs.example.com/jobs", "ecs.example.com", ""},
      t \in {ApiToken, ""},
      a \in {"", "plan", "deploy"},
      m \in {Unset, NotANumber, MinusOne, NumText(<< "0" >>, TRUE, 0),
             NumText(<< "1", "0" >>, TRUE, 10), NumText(<< "1", "1" >>, TRUE, 11)},
      ts \in {Unset, NumText(<< "0" >>, TRUE, 0), NumText(<< "1" >>, TRUE, 1),
              NumText(<< "6", "0", "0" >>, TRUE, 600),
              NumText(<< "6", "0", "1" >>, TRUE, 601)},
      b \in {Unset, MinusOne, NumText(<< "0" >>, TRUE, 0),
             NumText(<< "5", "0", "0", "0" >>, TRUE, 5000),
             NumText(<< "5", "0", "0", "1" >>, TRUE, 5001)} }

Run ==
  /\ fpc = "in"
  /\ fin.kind = "run"
  /\ fout' = run(fin)
  /\ fpc' = "out"
  /\ UNCHANGED << fin, calls, transportVars >>

(***************************************************************************)
(* crypto.ts: signPayload, on canonical strings and on texts that differ   *)
(* in one byte.                                                            *)
(***************************************************************************)
Secrets == {HmacSecret, "k2"}
\* pairs of texts, the second one byte away from the first
BytePairs ==
  { << "{\"a\":1}", "{\"a\":2}" >>,
    << "{\"issue_number\":42}", "{\"issue_number\":43}" >>,
    << "{\"tenant\":\"a\"}", "{\"tenant\":\"A\"}" >>,
    << "", " " >>,
    << "{}", "{} " >> }
SignInputs ==
  { [kind |-> "sign", a |-> p[1], b |-> p[2]] : p \in BytePairs }

\* signPayload(a, secret) twice, then signPayload(b, secret); for a pair of
\* payloads the texts are their canonical strings
Sign ==
  /\ fpc = "in"
  /\ fin.kind \in {"sign", "field"}
  /\ \E secret \in Secrets :
       LET a == IF fin.kind = "sign" THEN fin.a
                ELSE createStableJsonString(fin.a, fin.root)
           b == IF fin.kind = "sign" THEN fin.b
                ELSE createStableJsonString(fin.b, fin.root)
       IN  fout' = [kind |-> "sign", secret |-> secret, a |-> a, b |-> b,
                    first |-> signPayload(a, secret),
                    second |-> signPayload(a, secret),
                    other |-> signPayload(b, secret)]
  /\ fpc' = "out"
  /\ UNCHANGED << fin, calls, transportVars >>

(***************************************************************************)
(* crypto.ts: redactSecrets, and index.ts: the debug line run writes       *)
(* before submitting.                                                      *)
(***************************************************************************)
\* a list that lacks the generic 'token'
sensitiveKeysWithoutToken ==
  {"ecs_api_token", "ecs_hmac_secret", "vectordb_token", "openai_api_key",
   "llm_api_key", "forwarded"}
\* const sensitiveKeys = [...]
sensitiveKeys ==
  {"ecs_api_token", "ecs_hmac_secret", "vectordb_token", "openai_api_key",
   "llm_api_key", "token", "forwarded"}

\* key.toLowerCase().includes(sensitive.toLowerCase()): the entries of
\* sensitiveKeys that occur in a property name, for the property names of
\* the model; a name not listed here contains none of them
NamesWithin(key) ==
  CASE key = "ecs_api_token" -> {"ecs_api_token", "token"}
    [] key = "ecs_hmac_secret" -> {"ecs_hmac_secret"}
    [] key = "vectordb_token" -> {"vectordb_token", "token"}
    [] key = "openai_api_key" -> {"openai_api_key"}
    [] key = "llm_api_key" -> {"llm_api_key"}
    [] key = "token" -> {"token"}
    [] key = "Token" -> {"token"}
    [] key = "forwarded" -> {"forwarded"}
    [] OTHER -> {}
\* sensitiveKeys.some(sensitive => ...)
IsSensitive(key) == NamesWithin(key) \cap sensitiveKeys # {}

Redacted == Str("[REDACTED]")

RECURSIVE redactSecrets(_, _)
RECURSIVE redactEntries(_, _, _, _)

\* for (const [key, value] of Object.entries(obj)): the entries of an array
\* are its elements under their indices; every recursive call makes a new
\* object
redactEntries(hp, node, i, acc) ==
  IF i > Len(node.ents) THEN [heap |-> hp, ents |-> acc]
  ELSE LET e == node.ents[i]
           key == IF node.k = "arr" THEN ToString(i - 1) ELSE e.key
       IN  IF IsSensitive(key)
           THEN redactEntries(hp, node, i + 1, Append(acc, Ent(key, Redacted)))
           ELSE IF e.val.t = "ref"
           THEN LET sub == redactSecrets(hp, e.val)
                IN  redactEntries(sub.heap, node, i + 1, Append(acc, Ent(key, sub.ref)))
           ELSE redactEntries(hp, node, i + 1, Append(acc, Ent(key, e.val)))

\* the heap after the call and the object returned
redactSecrets(hp, obj) ==
  LET r == redactEntries(hp, hp[obj.r], 1, << >>)
  IN  [heap |-> Append(r.heap, Obj(r.ents)), ref |-> Ref(Len(r.heap) + 1)]

\* the value JSON.stringify walks: properties in insertion order
RECURSIVE jsonTree(_, _)
jsonTree(hp, v) ==
  IF v.t # "ref" THEN Leaf(v.t, v.s)
  ELSE Node(hp[v.r].k,
            [i \in 1..Len(hp[v.r].ents) |->
               Ent(hp[v.r].ents[i].key, jsonTree(hp, hp[v.r].ents[i].val))])

\* core.debug(`Payload (redacted): ${JSON.stringify(redactSecrets(payload), null, 2)}`),
\* without the white space of the indentation
DebugLine(hp, obj) ==
  LET r == redactSecrets(hp, obj)
  IN  "Payload (redacted): " \o stringify(jsonTree(r.heap, r.ref))

\* inputs.x || null
OrNull(v) == IF Truthy(v) THEN v ELSE Null
\* inputs.x || undefined
OrUndefined(v) == IF Truthy(v) THEN v ELSE Undefined

\* buildJobPayload for these vectordb_url, vectordb_token, openai_api_key
\* and llm_api_key inputs
SecretsPayload(in) ==
  LET h0 == buildJobPayload(Num(42), Str("tenant-a"), Undefined)
      h1 == SetProp(h0, VectorAddr, "url", OrNull(in.vectordb_url))
      h2 == SetProp(h1, ForwardedAddr, "vectordb_token", OrNull(in.vectordb_token))
      h3 == SetProp(h2, PayloadAddr, "openai_api_key", OrUndefined(in.openai_api_key))
  IN  SetProp(h3, PayloadAddr, "llm_api_key",
              IF Truthy(in.openai_api_key) THEN Undefined
              ELSE OrUndefined(in.llm_api_key))

VectordbUrls == {Undefined, Str("https://vdb.example/a"), Str("https://user:pw@vdb.example/b")}
VectordbTokens == {Undefined, Str("vt-1"), Str("vt-2")}
ActionSecrets ==
  { [vectordb_url |-> u, vectordb_token |-> t, openai_api_key |-> o, llm_api_key |-> l] :
      u \in VectordbUrls, t \in VectordbTokens,
      o \in {Undefined, Str("sk-openai")}, l \in {Undefined, Str("sk-llm")} }

\* two runs of the action whose inputs differ in vectordb_url and
\* vectordb_token only
VectordbInputs ==
  { [kind |-> "vectordb", a |-> SecretsPayload(p[1]), b |-> SecretsPayload(p[2]),
     root |-> Ref(PayloadAddr), urls |-> << p[1].vectordb_url, p[2].vectordb_url >>] :
      p \in { q \in ActionSecrets \X ActionSecrets :
                /\ q[1] # q[2]
                /\ q[1].openai_api_key = q[2].openai_api_key
                /\ q[1].llm_api_key = q[2].llm_api_key } }

\* the names the documentation lists as redacted
StatedSecretKeys ==
  {"ecs_api_token", "ecs_hmac_secret", "vectordb_token", "openai_api_key",
   "llm_api_key", "token"}

\* an object that holds the listed names at several depths, below objects
\* and below arrays
DeepSecrets ==
  << Obj(<< Ent("inputs", Ref(2)), Ent("list", Ref(3)), Ent("name", Str("x")),
            Ent("token", Ref(6)) >>),
     Obj(<< Ent("ecs_endpoint", Str("https://ecs.example")),
            Ent("ecs_api_token", Str("t0")),
            Ent("ecs_hmac_secret", Str("s0")) >>),
     Arr(<< Ref(4), Str("plain") >>),
     Obj(<< Ent("token", Str("t1")), Ent("nested", Ref(5)) >>),
     Obj(<< Ent("openai_api_key", Str("sk-1")), Ent("llm_api_key", Undefined),
            Ent("vectordb_token", Num(7)) >>),
     Obj(<< Ent("value", Str("t6")) >>) >>

\* the members of the objects below an address whose name is listed
SecretMembers(hp, root) ==
  { m \in UNION { {<< a, i >> : i \in 1..Len(hp[a].ents)} : a \in Reach(hp, {root.r}, {}) } :
      hp[m[1]].k = "obj" /\ hp[m[1]].ents[m[2]].key \in StatedSecretKeys }

SecretHeaps ==
  { SecretsPayload(in) : in \in { s \in ActionSecrets : s.vectordb_url = Undefined } }
  \cup {DeepSecrets}

\* two objects that differ in the value under one listed name, or under all
SecretInputs ==
  UNION { { [kind |-> "secrets", a |-> H,
             b |-> WithVal(H, m[1], m[2], Changed(H[m[1]].ents[m[2]].val)),
             root |-> Ref(1)] : m \in SecretMembers(H, Ref(1)) } : H \in SecretHeaps }
  \cup { [kind |-> "secrets", a |-> H,
          b |-> [x \in 1..Len(H) |->
                   [H[x] EXCEPT !.ents =
                      [i \in 1..Len(H[x].ents) |->
                         IF H[x].k = "obj" /\ H[x].ents[i].key \in StatedSecretKeys
                         THEN Ent(H[x].ents[i].key, Changed(H[x].ents[i].val))
                         ELSE H[x].ents[i]]]],
          root |-> Ref(1)] : H \in SecretHeaps }

\* redactSecrets(a) and redactSecrets(b), and the debug lines of the two
Redact ==
  /\ fpc = "in"
  /\ fin.kind \in {"vectordb", "secrets"}
  /\ fout' = [kind |-> fin.kind,
              a |-> DebugLine(fin.a, fin.root),
              b |-> DebugLine(fin.b, fin.root),
              ra |-> redactSecrets(fin.a, fin.root),
              rb |-> redactSecrets(fin.b, fin.root)]
  /\ fpc' = "out"
  /\ UNCHANGED << fin, calls, transportVars >>

(***************************************************************************)
(* client.ts: submitJob, the headers next to the value that is serialised  *)
(* into the body, for either copy of createStableJsonString.               *)
(***************************************************************************)
\* the property of a serialised object; undefined when there is none
TreeGet(tree, key) ==
  LET hits == IF tree.t = "obj"
              THEN {i \in 1..Len(tree.ents) : tree.ents[i].key = key}
              ELSE {}
  IN  IF hits = {} THEN Leaf("undef", "undefined")
      ELSE tree.ents[CHOOSE i \in hits : TRUE].val

\* what each copy hands to JSON.stringify / what JSON.stringify keeps
BodyTree(fn, hp, e) ==
  IF fn = "createStableJsonString" THEN normalize(hp, e, {}).tree
  ELSE LET sorted == SortedEnts(hp[e.r].ents)
       IN  replacerTree(hp, e, [i \in 1..Len(sorted) |-> sorted[i].key])

StableJsonFns == {"createStableJsonString", "createStableJsonStringReplacer"}

\* submitJob with one of the two copies: the headers, the body, and the
\* value the body is the text of
SubmitSigned ==
  /\ fpc = "in"
  /\ fin.kind = "headers"
  /\ \E fn \in StableJsonFns :
       LET hp == HeaderPayload(fin)
           h2 == Enrich(hp, Payload)
           e == EnrichedRef(hp)
       IN  fout' = [kind |-> "signed", fn |-> fn,
                    headers |-> BuildHeaders(h2, e),
                    body |-> IF fn = "createStableJsonString"
                             THEN createStableJsonString(h2, e)
                             ELSE createStableJsonStringReplacer(h2, e),
                    parsed |-> BodyTree(fn, h2, e)]
  /\ fpc' = "out"
  /\ UNCHANGED << fin, calls, transportVars >>

FnInputs ==
  CanonInputs \cup KeyInputs \cup BackoffInputs \cup HeaderInputs \cup RunInputs
    \cup SignInputs \cup VectordbInputs \cup SecretInputs

FnInit ==
  /\ TransportParked
  /\ fin \in FnInputs
  /\ fout = [kind |-> "none"]
  /\ fpc = "in"
  /\ calls = << >>

FnNext ==
  \/ Canonicalize
  \/ CanonicalizeReplacer
  \/ BuildKey
  \/ Backoff
  \/ SubmitHeaders
  \/ Run
  \/ Sign
  \/ Redact
  \/ SubmitSigned

FnSpec == FnInit /\ [][FnNext]_vars

(***************************************************************************)
(* client.ts: two submitJob calls in flight together.  Each call has its   *)
(* own locals (attempt, lastError, controller and timer, response); the    *)
(* fields of the client it was called on are readonly.  Beside each call   *)
(* runs the same call alone: it is given the same events and reads nothing *)
(* but its own locals.                                                     *)
(***************************************************************************)
\* largest maxRetries of the two concurrent calls
PairRetries == 1
\* the payload each of the two calls submits
PairSources ==
  << [issue |-> Null, tenant |-> Undefined, post_comment |-> True],
     [issue |-> Num(42), tenant |-> Str("tenant-a"), post_comment |-> Undefined] >>
PairResponses ==
  { Resp(202, TRUE, Str("jr_1"), Str("accepted")),
    Resp(503, FALSE, Undefined, Undefined),
    Resp(404, FALSE, Undefined, Undefined) }
PairCodes == {"ECONNRESET", "ETIMEDOUT"}
\* Math.random(), in thousandths
PairJitters == {500}

\* what the environment does to a call: start (submitJob is called),
\* respond (fetch resolves), reject (fetch rejects), body (the body is
\* read), timer (the timer of attempt k fires), wake (the sleep ends)
Ev(type, r, code, k, rnd) ==
  [type |-> type, r |-> r, code |-> code, k |-> k, rnd |-> rnd]

\* the locals of a call that has not started, on a client with retryConfig
\* rc, to submit payload src
Fresh(client, rc, src) ==
  [client |-> client, rc |-> rc, src |-> src, pc |-> "idle", attempt |-> 0,
   body |-> "", headers |-> << >>, lastError |-> NoError, outcome |-> NoOutcome,
   resp |-> NoResp, timers |-> [k \in 0..PairRetries |-> "none"],
   sent |-> << >>, delay |-> 0]

\* the loop index and the other locals of call i, read from a field that
\* the calls share
LocalsSharedAttempt(cs, i) == [cs[i].run EXCEPT !.attempt = cs[1].run.attempt]
\* let lastError; for (let attempt = 0; ...): the locals of call i
Locals(cs, i) == cs[i].run

\* the head of the loop body: a new AbortController, its timer, and fetch
IssueIn(c, att) ==
  [c EXCEPT !.attempt = att,
            !.timers[att] = "armed",
            !.sent = Append(@, AttemptRequest(att, c.body, c.headers)),
            !.pc = "fetch"]

\* the effect of what the loop body decided
Decide(c, d, rnd) ==
  LET c1 == [c EXCEPT !.lastError = d.last,
                      !.resp = IF d.kind = "return" THEN @ ELSE NoResp]
  IN  CASE d.kind = "retry" ->
             [c1 EXCEPT !.pc = "sleep",
                        !.delay = calculateBackoff(c.rc.backoffMs, c.attempt, rnd)]
        [] d.kind = "throw" ->
             [c1 EXCEPT !.pc = "done", !.outcome = Outcome("error", d.err, NoResp)]
        [] d.kind = "return" ->
             [c1 EXCEPT !.pc = "done", !.outcome = Outcome("ok", NoError, d.resp)]

CallEnabled(c, ev) ==
  CASE ev.type = "start" -> c.pc = "idle"
    [] ev.type \in {"respond", "reject"} -> c.pc = "fetch"
    [] ev.type = "body" -> c.pc = "body"
    [] ev.type = "timer" ->
         /\ c.timers[ev.k] = "armed"
         /\ \A j \in 0..(ev.k - 1) : c.timers[j] # "armed"
    [] ev.type = "wake" -> c.pc = "sleep"

\* submitJob and makeRequestWithRetry, from one await to the next
CallStep(c, ev) ==
  CASE ev.type = "start" ->
         LET src == PairSources[c.src]
             hp == buildJobPayload(src.issue, src.tenant, src.post_comment)
             h2 == Enrich(hp, Payload)
             e == EnrichedRef(hp)
             c1 == [c EXCEPT !.body = RequestBody(h2, e),
                             !.headers = BuildHeaders(h2, e),
                             !.lastError = NoError]
         IN  IF 0 <= c.rc.maxRetries THEN IssueIn(c1, 0)
             ELSE [c1 EXCEPT !.pc = "done",
                             !.outcome = Outcome("error",
                                 Err("Error", "", 0, "Maximum retries exceeded"), NoResp)]
    [] ev.type = "respond" ->
         [c EXCEPT !.timers[c.attempt] = "cleared", !.resp = ev.r, !.pc = "body"]
    [] ev.type = "reject" ->
         Decide(c, CatchBlock(Err("FetchError", ev.code, 0, "request failed"),
                              c.attempt, c.rc.maxRetries, c.lastError), ev.rnd)
    [] ev.type = "body" ->
         Decide(c, IF ResponseOk(c.resp.status)
                   THEN OkBlock(c.resp, c.attempt, c.rc.maxRetries, c.lastError)
                   ELSE HttpErrorBlock(c.resp.status, "error text", c.attempt,
                                       c.rc.maxRetries, c.lastError), ev.rnd)
    [] ev.type = "timer" ->
         LET c1 == [c EXCEPT !.timers[ev.k] = "fired"]
         IN  IF c.pc = "fetch" /\ c.attempt = ev.k
             THEN Decide(c1, CatchBlock(Err("AbortError", "", 0, "The user aborted a request."),
                                        c.attempt, c.rc.maxRetries, c.lastError), ev.rnd)
             ELSE c1
    [] ev.type = "wake" ->
         IF c.attempt + 1 <= c.rc.maxRetries THEN IssueIn(c, c.attempt + 1)
         ELSE [c EXCEPT !.attempt = @ + 1, !.pc = "done",
                        !.outcome = Outcome("error",
                            IF c.lastError # NoError THEN c.lastError
                            ELSE Err("Error", "", 0, "Maximum retries exceeded"), NoResp)]

\* the event is delivered to call i, which runs to its next await
CallTakesStep(i, ev) ==
  /\ i \in DOMAIN calls
  /\ CallEnabled(Locals(calls, i), ev)
  /\ calls' = [calls EXCEPT ![i] = [run |-> CallStep(Locals(calls, i), ev),
                                     alone |-> CallStep(calls[i].alone, ev)]]
  /\ UNCHANGED << fin, fout, fpc, transportVars >>

PairSubmitJob(i) == CallTakesStep(i, Ev("start", NoResp, "", 0, 0))
PairFetchResolves(i, r) == CallTakesStep(i, Ev("respond", r, "", 0, 0))
PairFetchRejects(i, code, rnd) == CallTakesStep(i, Ev("reject", NoResp, code, 0, rnd))
PairBodyRead(i, rnd) == CallTakesStep(i, Ev("body", NoResp, "", 0, rnd))
PairTimerFires(i, k, rnd) == CallTakesStep(i, Ev("timer", NoResp, "", k, rnd))
PairSleepEnds(i) == CallTakesStep(i, Ev("wake", NoResp, "", 0, 0))

\* two calls on one client, or on two clients with their own retryConfig
PairInit ==
  /\ TransportParked
  /\ fin = [kind |-> "none"]
  /\ fout = [kind |-> "none"]
  /\ fpc = "off"
  /\ \E same \in BOOLEAN :
       \E rcs \in [1..2 -> [maxRetries : 0..PairRetries, backoffMs : Backoffs,
                            timeoutSeconds : Timeouts]] :
         /\ same => rcs[1] = rcs[2]
         /\ calls = [i \in 1..2 |->
                       [run |-> Fresh(IF same THEN 1 ELSE i, rcs[i], i),
                        alone |-> Fresh(IF same THEN 1 ELSE i, rcs[i], i)]]

PairNext ==
  \/ \E i \in 1..2 : PairSubmitJob(i)
  \/ \E i \in 1..2, r \in PairResponses : PairFetchResolves(i, r)
  \/ \E i \in 1..2, c \in PairCodes, rnd \in PairJitters : PairFetchRejects(i, c, rnd)
  \/ \E i \in 1..2, rnd \in PairJitters : PairBodyRead(i, rnd)
  \/ \E i \in 1..2, k \in 0..PairRetries, rnd \in PairJitters : PairTimerFires(i, k, rnd)
  \/ \E i \in 1..2 : PairSleepEnds(i)

PairSpec == PairInit /\ [][PairNext]_vars

(***************************************************************************)
(* Properties of the library functions.                                    *)
(***************************************************************************)
Returned(kind) == fpc = "out" /\ fout.kind = kind

\* C12: two payloads that are equal except for the insertion order of the
\* keys of their objects, at whatever depth, are serialised to the same
\* string, by either copy of createStableJsonString.
C12_KeyOrderIrrelevant ==
  Returned("keyorder") => fout.a = fout.b

\* the keys of job.llm, at depth three, were inserted in another order
C12_Witness ==
  /\ Returned("keyorder")
  /\ fout.fn = "createStableJsonString"
  /\ fin.a[LlmAddr] # fin.b[LlmAddr]
  /\ fin.a[JobAddr] = fin.b[JobAddr]

\* C13: the request body carries every field of the payload, at every
\* depth, with its value: two tree-shaped payloads that differ in the value
\* of one field, nested or not, are serialised to different bodies,
\* whichever copy of createStableJsonString is in place.
C13_FieldChangeChangesBody ==
  Returned("field") => fout.a # fout.b

\* the same for the first copy alone, the one that normalizes recursively
C13_RecursiveCopyKeepsFields ==
  (Returned("field") /\ fout.fn = "createStableJsonString") => fout.a # fout.b

\* C14: createStableJsonString keeps the elements of an array in their
\* order: an array with at least two distinct elements and the same array
\* with its elements in another order, at whatever depth, are serialised to
\* different strings.
C14_ArrayOrderSignificant ==
  Returned("arrayorder") => fout.a # fout.b

\* job.allow_write_paths of a payload, at depth three, was reordered
C14_Witness ==
  /\ Returned("arrayorder")
  /\ Len(fin.a) > AllowAddr
  /\ fin.a[AllowAddr] # fin.b[AllowAddr]
  /\ fin.a[AllowAddr].k = "arr"

\* C15: on a value one member of which refers back to an ancestor (or to
\* the container itself), createStableJsonString returns, and what it
\* returns is the serialisation of the same value with null written at
\* the position of the back reference.
C15_CycleSafe ==
  Returned("cycle") => fout.a = fout.b

\* job.llm, at depth three, has a member that refers to the payload itself
C15_Witness ==
  /\ Returned("cycle")
  /\ \E i \in 1..Len(fin.a[LlmAddr].ents) : fin.a[LlmAddr].ents[i].val = fin.root

\* C16: a value in which one array or object instance is used at two
\* positions, neither an ancestor of the other, is serialised to the same
\* string as the value with two separate equal copies at those positions.
C16_SharingSerializesAsCopies ==
  Returned("sharing") => fout.a = fout.b

\* C17: createIdempotencyKey returns owner/repo/issue/runId, where the
\* issue segment is the decimal text of the issue number when there is one,
\* 0 included, and the token null when there is none; the segment is never
\* empty.
C17_IdempotencyKeyFormat ==
  Returned("key") =>
    LET seg == IF fin.issue.t = "num" THEN fin.issue.s ELSE "null"
    IN  /\ fout.key = fin.owner \o "/" \o fin.repo \o "/" \o seg \o "/" \o fin.runId
        /\ seg # ""
        /\ (fin.owner = "acme" /\ fin.repo = "widgets" /\ fin.runId = "789") =>
             /\ fin.issue = Num(42) => fout.key = "acme/widgets/42/789"
             /\ fin.issue = Num(0) => fout.key = "acme/widgets/0/789"
             /\ fin.issue = Null => fout.key = "acme/widgets/null/789"

\* a key was built for issue number 0
C17_Witness ==
  /\ Returned("key")
  /\ fin.issue = Num(0)
  /\ fout.key = "acme/widgets/0/789"

MandatoryHeaders ==
  {"Content-Type", "User-Agent", "X-ResolveAI-Token", "X-ResolveAI-Signature",
   "X-ResolveAI-Idempotency-Key", "X-ResolveAI-Repo"}
IsSet(v) == v \notin {Undefined, Null, Str("")}

\* C19: the request of every attempt carries the six mandatory headers,
\* and each of the issue, ref, sha, tenant and event headers exactly when
\* the payload field it is taken from is set (not null, not empty).
C19_RequestHeaders ==
  Returned("headers") =>
    \A att \in DOMAIN fout.reqs :
      LET names == DOMAIN fout.reqs[att].headers
      IN  /\ MandatoryHeaders \subseteq names
          /\ "X-ResolveAI-Issue" \in names <=> IsSet(fin.issue)
          /\ "X-ResolveAI-Ref" \in names <=> IsSet(fin.ref)
          /\ "X-ResolveAI-Sha" \in names <=> IsSet(fin.sha)
          /\ "X-ResolveAI-Tenant" \in names <=> IsSet(fin.tenant)
          /\ "X-ResolveAI-Event" \in names <=> IsSet(fin.event)

\* issue number 0 and an event name are set, the tenant is empty
C19_Witness ==
  /\ Returned("headers")
  /\ fin.issue = Num(0)
  /\ fin.tenant = Str("")
  /\ fin.event = Str("push")
  /\ "X-ResolveAI-Issue" \in DOMAIN fout.reqs[1].headers
  /\ "X-ResolveAI-Tenant" \notin DOMAIN fout.reqs[1].headers

\* the inputs as the specification sees them: a numeric input left out
\* takes its default
Within(x, lo, hi) == Len(x.text) = 0 \/ (x.numeric /\ lo <= x.value /\ x.value <= hi)
StatedValid(in) ==
  /\ in.ecs_endpoint = "https://ecs.example.com/jobs"
  /\ in.ecs_api_token # ""
  /\ in.action \in {"", "run", "plan"}
  /\ Within(in.max_retries, 0, 10)
  /\ Within(in.timeout_seconds, 1, 600)
  /\ Within(in.backoff_ms, 0, 5000)

\* C20: when the inputs fail validation (max_retries outside 0..10,
\* timeout_seconds outside 1..600, backoff_ms outside 0..5000, no token, a
\* malformed endpoint), run reports a failure, constructs no client and
\* issues no request; every retry configuration a client is constructed
\* with has maxRetries >= 0 and timeoutSeconds >= 1.
C20_ConfigErrorsBeforeNetwork ==
  Returned("run") =>
    /\ ~StatedValid(fin) => (fout.failed /\ ~fout.client /\ fout.attempts = 0)
    /\ fout.client => (fout.retryConfig.maxRetries >= 0
                       /\ fout.retryConfig.timeoutSeconds >= 1)

\* max_retries = -1 with every other input valid was rejected
C20_Witness ==
  /\ Returned("run")
  /\ fin.max_retries = MinusOne
  /\ StatedValid([fin EXCEPT !.max_retries = Unset])
  /\ fout.failed
  /\ ~fout.client

callState == << pc, attempt, lastError, outcome, resp, sent, slept, delay, failed >>

\* C21: when the deadline timer of attempt k fires, either attempt k is
\* the attempt in flight, and it is attempt k that fails by timeout, or
\* nothing of the call changes: no other attempt is cancelled or failed and
\* the outcome of the submission is not touched.
C21_DeadlineCancelsOwnAttemptOnly ==
  [][\A k \in 0..MaxRetriesBound :
       (timers[k].st = "armed" /\ timers'[k].st = "fired") =>
         IF pc = "fetch" /\ attempt = k
         THEN failed' = Failure(k, "timeout", "", 0) /\ sent' = sent
         ELSE UNCHANGED callState]_vars

\* the timer of attempt 0, which ended with a network error, has fired
\* and attempt 1 is in flight, untouched
C21_Witness ==
  /\ timers[0].st = "fired"
  /\ failed = Failure(0, "net", "ECONNRESET", 0)
  /\ pc = "fetch"
  /\ attempt = 1
  /\ timers[1].st = "armed"

\* C22: with maxRetries >= 0, submitJob never ends before it has issued a
\* request, and never ends with the error 'Maximum retries exceeded' of
\* the statement after the loop.
C22_AtLeastOneAttempt ==
  (pc = "done" /\ cfg.maxRetries >= 0) =>
    /\ Len(sent) >= 1
    /\ outcome.err.message # "Maximum retries exceeded"

\* a call with maxRetries = 0 ended in an error after its one request
C22_Witness ==
  /\ pc = "done"
  /\ cfg.maxRetries = 0
  /\ Len(sent) = 1
  /\ outcome.kind = "error"


\* the objects the caller passed: the payload and everything below it
CallerObjects(hp) == SubSeq(hp, 1, ForwardedAddr)

\* C26: no step of submitJob changes the payload object the caller passed
\* or any object nested in it (github, job, llm, vectordb, secrets,
\* forwarded, the path arrays): each keeps exactly its fields and values;
\* the duplicated issue_number goes to a new object.
C26_PayloadNeverMutated ==
  [][CallerObjects(heap') = CallerObjects(heap)]_vars

\* a call has ended; the enriched copy carries the top-level issue_number
\* and the caller's payload does not
C26_Witness ==
  /\ pc = "done"
  /\ Len(heap) = ForwardedAddr + 1
  /\ Get(heap, Ref(ForwardedAddr + 1), "issue_number").t = "num"
  /\ Get(heap, Payload, "issue_number") = Undefined
  /\ Len(sent) = 2

\* the wait count matches the attempts: one wait between two attempts, none
\* before the first, none after the last
WaitsMatchAttempts ==
  /\ pc = "idle" => Len(sent) = 0 /\ slept = 0
  /\ pc = "sleep" => slept = Len(sent)
  /\ pc \in {"fetch", "body", "done"} => slept = Len(sent) - 1

\* C27 (accounting, with retryable as stated: 408, 429, 500..599, connection
\* refused / unresolved / reset, deadline): at most maxRetries + 1 attempts
\* are issued, a wait and the attempt after it only follow an attempt that
\* failed retryably, and the waits number the attempts minus one.
C27_AttemptAccounting ==
  /\ Len(sent) <= cfg.maxRetries + 1
  /\ WaitsMatchAttempts
  /\ pc = "sleep" => failed.attempt = attempt /\ StatedRetryable(failed)
  /\ (pc \in {"fetch", "body"} /\ attempt >= 1) =>
       failed.attempt = attempt - 1 /\ StatedRetryable(failed)

\* the same accounting with the classification the code applies to HTTP
\* statuses (any status >= 500)
C27_AccountingWithCodeClassification ==
  /\ Len(sent) <= cfg.maxRetries + 1
  /\ WaitsMatchAttempts
  /\ pc = "sleep" =>
       failed.attempt = attempt /\ (StatedRetryable(failed) \/ failed.status >= 600)
  /\ (pc \in {"fetch", "body"} /\ attempt >= 1) =>
       failed.attempt = attempt - 1 /\ (StatedRetryable(failed) \/ failed.status >= 600)


C24_VectordbInputsNotLogged ==
  Returned("vectordb") => fout.a = fout.b

\* the part that holds: with one vectordb_url, the line does not depend on
\* vectordb_token
C24_VectordbTokenNotLogged ==
  (Returned("vectordb") /\ fin.urls[1] = fin.urls[2]) => fout.a = fout.b

\* every property with a listed name, in the objects of a redacted result,
\* holds '[REDACTED]'
Masked(r) ==
  \A m \in SecretMembers(r.heap, r.ref) : r.heap[m[1]].ents[m[2]].val = Redacted

\* C25: in the object redactSecrets returns, at every depth (below objects
\* and below arrays), each property named ecs_api_token, ecs_hmac_secret,
\* vectordb_token, openai_api_key, llm_api_key or token holds '[REDACTED]';
\* two inputs that differ only in the values under those names give the
\* same debug line; and the objects of the input are as they were.
C25_SecretRedaction ==
  Returned("secrets") =>
    /\ Masked(fout.ra)
    /\ Masked(fout.rb)
    /\ fout.a = fout.b
    /\ SubSeq(fout.ra.heap, 1, Len(fin.a)) = fin.a
    /\ SubSeq(fout.rb.heap, 1, Len(fin.b)) = fin.b

\* two objects that differ in a token three levels down, below an array
C25_Witness ==
  /\ Returned("secrets")
  /\ fin.a = DeepSecrets
  /\ fin.b = WithVal(DeepSecrets, 4, 1, Str("changed"))
  /\ Len(fout.ra.heap) > Len(fin.a)
  /\ fout.a = fout.b


\* a header, when present, states the text of a field of the body
Agrees(hs, name, field, ty) ==
  name \in DOMAIN hs => (field.t = ty /\ field.s = hs[name])

HeadersAgreeWithBody ==
  LET gh == TreeGet(fout.parsed, "github")
  IN  /\ stringify(fout.parsed) = fout.body
      /\ "X-ResolveAI-Idempotency-Key" \in DOMAIN fout.headers
      /\ Agrees(fout.headers, "X-ResolveAI-Idempotency-Key",
                TreeGet(fout.parsed, "idempotency_key"), "str")
      /\ Agrees(fout.headers, "X-ResolveAI-Repo", TreeGet(gh, "repository"), "str")
      /\ Agrees(fout.headers, "X-ResolveAI-Issue", TreeGet(gh, "issue_number"), "num")
      /\ Agrees(fout.headers, "X-ResolveAI-Ref", TreeGet(gh, "ref"), "str")
      /\ Agrees(fout.headers, "X-ResolveAI-Sha", TreeGet(gh, "sha"), "str")
      /\ Agrees(fout.headers, "X-ResolveAI-Tenant", TreeGet(fout.parsed, "tenant"), "str")

\* C29 (for both copies of createStableJsonString): the idempotency-key
\* header equals the idempotency_key of the body, and each of the
\* repository, issue, ref, sha and tenant headers that is present equals
\* the field of that name in the body.
C29_HeadersAgreeWithSignedBody ==
  Returned("signed") => HeadersAgreeWithBody

\* the part that holds: the headers agree with the body the recursive copy
\* writes
C29_HeadersAgreeWithRecursiveBody ==
  (Returned("signed") /\ fout.fn = "createStableJsonString") => HeadersAgreeWithBody

\* C30: the body has a top-level issue_number exactly when
\* github.issue_number of the payload is a number, 0 included; it then
\* equals that number and the github.issue_number of the same body; with
\* github.issue_number null there is none.
C30_DuplicatedIssueNumber ==
  Returned("signed") =>
    LET top == TreeGet(fout.parsed, "issue_number")
        inner == TreeGet(TreeGet(fout.parsed, "github"), "issue_number")
    IN  /\ stringify(fout.parsed) = fout.body
        /\ top.t # "undef" <=> fin.issue.t = "num"
        /\ top.t # "undef" => (top = inner /\ top = Leaf("num", fin.issue.s))
        /\ fin.issue = Null => top.t = "undef"

\* issue number 0 is duplicated at the top level of the body
C30_Witness ==
  /\ Returned("signed")
  /\ fin.issue = Num(0)
  /\ TreeGet(fout.parsed, "issue_number") = Leaf("num", "0")
  /\ TreeGet(TreeGet(fout.parsed, "github"), "issue_number") = Leaf("num", "0")


(***************************************************************************)
(* Properties of the deadline timers at the end of a call.                 *)
(***************************************************************************)
\* C31 (as stated): when submitJob has ended, no deadline timer of any of
\* its attempts is still pending: each has fired or has been cancelled.
C31_NoTimerOutlivesSubmission ==
  pc = "done" => \A k \in 0..MaxRetriesBound : timers[k].st # "armed"

\* the part that holds: the timer of an attempt that got a response (a
\* result or an error status) was cancelled before the call ended
C31_TimerOfAnsweredAttemptCleared ==
  /\ (pc = "done" /\ outcome.kind = "ok") => timers[attempt].st = "cleared"
  /\ (pc = "done" /\ failed.attempt = attempt /\ failed.kind = "http") =>
       timers[attempt].st = "cleared"

====
